---- MODULE Spec2Model ----
(***************************************************************************)
(* Model of src/src/navigator/register.py: the three tool handlers         *)
(* analyze_webpage, generate_test_automation_code and                      *)
(* generate_test_plan_markdown.                                            *)
(*                                                                         *)
(* Text is a sequence of one-character strings.  Python values (str, int,  *)
(* None, bool, list, dict) are tagged records.  Every external step (HTTP  *)
(* fetch, model-handle lookup, model call, file write, test runner) is an  *)
(* action whose outcome is chosen from a small set that always contains    *)
(* "raises".                                                               *)
(***************************************************************************)
EXTENDS Integers, Sequences, FiniteSets, TLC

(***************************************************************************)
(* Characters and text                                                     *)
(***************************************************************************)
DQ == "\""
SQ == "'"
BSL == "\\"

UpperChars == {"A","B","C","D","E","F","G","H","I","J","K","L","M",
               "N","O","P","Q","R","S","T","U","V","W","X","Y","Z"}
LowerChars == {"a","b","c","d","e","f","g","h","i","j","k","l","m",
               "n","o","p","q","r","s","t","u","v","w","x","y","z"}
DigitChars == {"0","1","2","3","4","5","6","7","8","9"}
\* the class [a-zA-Z0-9] of the slugify pattern
AlnumChars == UpperChars \cup LowerChars \cup DigitChars
\* what str.strip(), \S and the JSON scanner treat as white space
SpaceChars == {" ", "\t", "\n", "\r", "\f"}
JsonSpaceChars == {" ", "\t", "\n", "\r"}

\* str.lower() on one character
LowerChar(c) ==
    CASE c = "A" -> "a" [] c = "B" -> "b" [] c = "C" -> "c" [] c = "D" -> "d"
      [] c = "E" -> "e" [] c = "F" -> "f" [] c = "G" -> "g" [] c = "H" -> "h"
      [] c = "I" -> "i" [] c = "J" -> "j" [] c = "K" -> "k" [] c = "L" -> "l"
      [] c = "M" -> "m" [] c = "N" -> "n" [] c = "O" -> "o" [] c = "P" -> "p"
      [] c = "Q" -> "q" [] c = "R" -> "r" [] c = "S" -> "s" [] c = "T" -> "t"
      [] c = "U" -> "u" [] c = "V" -> "v" [] c = "W" -> "w" [] c = "X" -> "x"
      [] c = "Y" -> "y" [] c = "Z" -> "z" [] OTHER -> c

\* str.lower()
Lower(s) == [i \in 1..Len(s) |-> LowerChar(s[i])]

DigitVal(c) ==
    CASE c = "0" -> 0 [] c = "1" -> 1 [] c = "2" -> 2 [] c = "3" -> 3
      [] c = "4" -> 4 [] c = "5" -> 5 [] c = "6" -> 6 [] c = "7" -> 7
      [] c = "8" -> 8 [] c = "9" -> 9 [] OTHER -> 0

\* s[:n]
Take(s, n) == SubSeq(s, 1, IF Len(s) < n THEN Len(s) ELSE n)

\* whether p occurs in s at (1-based) position i
MatchAt(s, i, p) ==
    /\ i >= 1
    /\ i + Len(p) - 1 <= Len(s)
    /\ \A k \in 1..Len(p) : s[i + k - 1] = p[k]

\* str.startswith(p)
StartsWith(s, p) == MatchAt(s, 1, p)

\* p in s
Contains(s, p) == \E i \in 1..(Len(s) + 1) : MatchAt(s, i, p)

\* str.find(c) + 1: the 1-based position of the first c in s, 0 when there is none
Find(s, c) ==
    IF \E i \in 1..Len(s) : s[i] = c
    THEN CHOOSE i \in 1..Len(s) : s[i] = c /\ \A k \in 1..(i - 1) : s[k] # c
    ELSE 0

\* str.replace(a, b) for single characters a and b
Replace(s, a, b) == [i \in 1..Len(s) |-> IF s[i] = a THEN b ELSE s[i]]

\* str.strip(chars): drop leading and trailing characters of the set
StripSet(s, chars) ==
    IF \A i \in 1..Len(s) : s[i] \in chars
    THEN << >>
    ELSE LET keep == {i \in 1..Len(s) : s[i] \notin chars}
             lo == CHOOSE i \in keep : \A k \in keep : i <= k
             hi == CHOOSE i \in keep : \A k \in keep : k <= i
         IN SubSeq(s, lo, hi)

\* str.strip()
Strip(s) == StripSet(s, SpaceChars)

\* str.lstrip(chars)
LStripSet(s, chars) ==
    IF \A i \in 1..Len(s) : s[i] \in chars
    THEN << >>
    ELSE LET keep == {i \in 1..Len(s) : s[i] \notin chars}
             lo == CHOOSE i \in keep : \A k \in keep : i <= k
         IN SubSeq(s, lo, Len(s))

\* Body(e), with e evaluated once
Bind(e, Body(_)) == CHOOSE y \in {Body(x) : x \in {e}} : TRUE

\* the concatenation of Piece(lo), ..., Piece(hi)
RECURSIVE FlatMap(_, _, _)
FlatMap(Piece(_), lo, hi) ==
    IF lo > hi THEN << >>
    ELSE IF lo = hi THEN Piece(lo)
    ELSE LET mid == (lo + hi) \div 2
         IN FlatMap(Piece, lo, mid) \o FlatMap(Piece, mid + 1, hi)

\* [x.strip() for x in s.split('\n') if x.strip()]
NonEmptyLines(s) ==
    LET LineFrom(i) ==
            LET ends == {k \in i..Len(s) : s[k] = "\n"}
                e == IF ends = {} THEN Len(s)
                     ELSE (CHOOSE k \in ends : \A m \in ends : k <= m) - 1
            IN Strip(SubSeq(s, i, e))
        Piece(i) ==
            IF (i = 1 \/ s[i - 1] = "\n") /\ LineFrom(i) # << >>
            THEN << LineFrom(i) >> ELSE << >>
    IN FlatMap(Piece, 1, Len(s))

(***************************************************************************)
(* Python values                                                           *)
(***************************************************************************)
PyNone == [t |-> "none"]
PyStr(s) == [t |-> "str", s |-> s]
PyInt(n) == [t |-> "int", n |-> n]
PyBool(b) == [t |-> "bool", b |-> b]
PyList(items) == [t |-> "list", items |-> items]
\* a dict is the sequence of its <<key, value>> pairs in insertion order;
\* a key written twice keeps its last value
PyDict(pairs) == [t |-> "dict", pairs |-> pairs]

IsStr(v) == v.t = "str"
IsDict(v) == v.t = "dict"

\* bool(v)
Truthy(v) ==
    CASE v.t = "none" -> FALSE
      [] v.t = "str" -> v.s # << >>
      [] v.t = "int" -> v.n # 0
      [] v.t = "bool" -> v.b
      [] v.t = "list" -> v.items # << >>
      [] v.t = "dict" -> v.pairs # << >>

\* key in d, for a dict d
HasKey(d, key) == \E i \in 1..Len(d.pairs) : d.pairs[i][1] = PyStr(key)

\* d[key], for a dict d that has the key
Lookup(d, key) ==
    LET hits == {i \in 1..Len(d.pairs) : d.pairs[i][1] = PyStr(key)}
        last == CHOOSE i \in hits : \A k \in hits : k <= i
    IN d.pairs[last][2]

\* d.get(key, default), for a dict d
Get(d, key, default) == IF HasKey(d, key) THEN Lookup(d, key) ELSE default

\* type(v).__name__
TypeName(v) ==
    CASE v.t = "none" -> "NoneType" [] v.t = "str" -> "str" [] v.t = "int" -> "int"
      [] v.t = "bool" -> "bool" [] v.t = "list" -> "list" [] v.t = "dict" -> "dict"

(***************************************************************************)
(* json.loads and ast.literal_eval                                         *)
(* One scanner with a flag py: FALSE is the JSON grammar, TRUE the Python  *)
(* literal grammar (either quote, None/True/False, trailing commas, any    *)
(* hashable key).  Numbers are integers; \u escapes, floats, tuples and    *)
(* sets are outside the modelled inputs.                                   *)
(***************************************************************************)
ParseFail == [ok |-> FALSE, v |-> PyNone, i |-> 0]
ParseOk(v, i) == [ok |-> TRUE, v |-> v, i |-> i]

RECURSIVE SkipWs(_, _)
SkipWs(s, i) ==
    IF i <= Len(s) /\ s[i] \in JsonSpaceChars THEN SkipWs(s, i + 1) ELSE i

\* the character a backslash escape stands for
Unescape(c) ==
    CASE c = "n" -> "\n" [] c = "t" -> "\t" [] c = "r" -> "\r" [] c = "f" -> "\f"
      [] OTHER -> c

JsonEscapes == {DQ, BSL, "/", "n", "t", "r", "f"}
PyEscapes == {DQ, SQ, BSL, "n", "t", "r", "f"}

\* the rest of a string literal opened by quote q, from position i
ScanString(s, i, q, py) ==
    LET \* how many backslashes stand right before position j, back to i
        Run(j) ==
            IF j = i \/ s[j - 1] # BSL THEN 0
            ELSE CHOOSE k \in 1..(j - i) :
                     /\ \A m \in 1..k : s[j - m] = BSL
                     /\ (k = j - i \/ s[j - k - 1] # BSL)
        Escaped(j) == Run(j) % 2 = 1
        closers == {j \in i..Len(s) : s[j] = q /\ ~Escaped(j)}
    IN IF closers = {} THEN ParseFail
       ELSE LET e == CHOOSE j \in closers : \A m \in closers : j <= m
                escapes == IF py THEN PyEscapes ELSE JsonEscapes
                Intro(p) == s[p] = BSL /\ ~Escaped(p)
                Piece(p) ==
                    IF Intro(p) THEN (IF s[p + 1] \in escapes THEN << >> ELSE << BSL >>)
                    ELSE IF Escaped(p) /\ s[p] \in escapes THEN << Unescape(s[p]) >>
                    ELSE << s[p] >>
            IN IF \E p \in i..(e - 1) :
                      \/ s[p] \in {"\n", "\r"}
                      \/ ~py /\ s[p] \in {"\t", "\f"}
                      \/ ~py /\ Intro(p) /\ s[p + 1] \notin escapes
               THEN ParseFail
               ELSE ParseOk(PyStr(FlatMap(Piece, i, e - 1)), e + 1)

RECURSIVE ScanDigits(_, _, _)
ScanDigits(s, i, n) ==
    IF i <= Len(s) /\ s[i] \in DigitChars
    THEN ScanDigits(s, i + 1, 10 * n + DigitVal(s[i]))
    ELSE [n |-> n, i |-> i]

\* -?(0|[1-9][0-9]*)
ScanInt(s, i, py) ==
    LET neg == s[i] = "-"
        j == IF neg THEN i + 1 ELSE i
    IN IF j > Len(s) \/ s[j] \notin DigitChars THEN ParseFail
       ELSE IF s[j] = "0"
            THEN IF py /\ j + 1 <= Len(s) /\ s[j + 1] \in DigitChars
                 THEN ParseFail
                 ELSE ParseOk(PyInt(0), j + 1)
       ELSE LET d == ScanDigits(s, j, 0)
            IN ParseOk(PyInt(IF neg THEN 0 - d.n ELSE d.n), d.i)

\* a keyword at position i; a Python name must end there
Keyword(s, i, w, py) ==
    /\ MatchAt(s, i, w)
    /\ py => (i + Len(w) > Len(s) \/ s[i + Len(w)] \notin (AlnumChars \cup {"_"}))

RECURSIVE ParseValue(_, _, _)
RECURSIVE ParseItems(_, _, _, _, _)
RECURSIVE ParseMembers(_, _, _, _, _)

ParseValue(s, i, py) ==
    IF i > Len(s) THEN ParseFail
    ELSE IF s[i] = DQ THEN ScanString(s, i + 1, DQ, py)
    ELSE IF py /\ s[i] = SQ THEN ScanString(s, i + 1, SQ, py)
    ELSE IF s[i] = "{" THEN ParseMembers(s, SkipWs(s, i + 1), py, << >>, TRUE)
    ELSE IF s[i] = "[" THEN ParseItems(s, SkipWs(s, i + 1), py, << >>, TRUE)
    ELSE IF s[i] \in DigitChars \cup {"-"} THEN ScanInt(s, i, py)
    ELSE IF ~py /\ Keyword(s, i, <<"n", "u", "l", "l">>, py) THEN ParseOk(PyNone, i + 4)
    ELSE IF ~py /\ Keyword(s, i, <<"t", "r", "u", "e">>, py) THEN ParseOk(PyBool(TRUE), i + 4)
    ELSE IF ~py /\ Keyword(s, i, <<"f", "a", "l", "s", "e">>, py) THEN ParseOk(PyBool(FALSE), i + 5)
    ELSE IF py /\ Keyword(s, i, <<"N", "o", "n", "e">>, py) THEN ParseOk(PyNone, i + 4)
    ELSE IF py /\ Keyword(s, i, <<"T", "r", "u", "e">>, py) THEN ParseOk(PyBool(TRUE), i + 4)
    ELSE IF py /\ Keyword(s, i, <<"F", "a", "l", "s", "e">>, py) THEN ParseOk(PyBool(FALSE), i + 5)
    ELSE ParseFail

\* the elements of a list; i is past the "[" or the "," and the white space
ParseItems(s, i, py, acc, first) ==
    IF i > Len(s) THEN ParseFail
    ELSE IF s[i] = "]" THEN (IF first \/ py THEN ParseOk(PyList(acc), i + 1) ELSE ParseFail)
    ELSE Bind(ParseValue(s, i, py), LAMBDA v :
         IF ~v.ok THEN ParseFail
         ELSE Bind(SkipWs(s, v.i), LAMBDA e :
              IF e > Len(s) THEN ParseFail
              ELSE IF s[e] = "," THEN ParseItems(s, SkipWs(s, e + 1), py, Append(acc, v.v), FALSE)
              ELSE IF s[e] = "]" THEN ParseOk(PyList(Append(acc, v.v)), e + 1)
              ELSE ParseFail))

\* the members of a dict; i is past the "{" or the "," and the white space
ParseMembers(s, i, py, acc, first) ==
    IF i > Len(s) THEN ParseFail
    ELSE IF s[i] = "}" THEN (IF first \/ py THEN ParseOk(PyDict(acc), i + 1) ELSE ParseFail)
    ELSE IF ~py /\ s[i] # DQ THEN ParseFail
    ELSE Bind(ParseValue(s, i, py), LAMBDA k :
         IF ~k.ok \/ k.v.t \in {"list", "dict"} THEN ParseFail
         ELSE Bind(SkipWs(s, k.i), LAMBDA c :
              IF c > Len(s) \/ s[c] # ":" THEN ParseFail
              ELSE Bind(ParseValue(s, SkipWs(s, c + 1), py), LAMBDA v :
                   IF ~v.ok THEN ParseFail
                   ELSE Bind(SkipWs(s, v.i), LAMBDA e :
                        IF e > Len(s) THEN ParseFail
                        ELSE IF s[e] = ","
                             THEN ParseMembers(s, SkipWs(s, e + 1), py,
                                               Append(acc, << k.v, v.v >>), FALSE)
                        ELSE IF s[e] = "}"
                             THEN ParseOk(PyDict(Append(acc, << k.v, v.v >>)), e + 1)
                        ELSE ParseFail))))

\* json.loads(s): ok = FALSE stands for json.JSONDecodeError
JsonLoads(s) ==
    Bind(ParseValue(s, SkipWs(s, 1), FALSE), LAMBDA r :
         IF r.ok /\ SkipWs(s, r.i) = Len(s) + 1 THEN r ELSE ParseFail)

\* ast.literal_eval(s): ok = FALSE stands for the ValueError or SyntaxError it raises
LiteralEval(s) ==
    Bind(StripSet(LStripSet(s, {" ", "\t"}), JsonSpaceChars), LAMBDA body :
         Bind(ParseValue(body, 1, TRUE), LAMBDA r :
              IF r.ok /\ r.i = Len(body) + 1 THEN r ELSE ParseFail))

(***************************************************************************)
(* Text constants of the source                                            *)
(***************************************************************************)
K_query == <<"q", "u", "e", "r", "y">>
K_test_case == <<"t", "e", "s", "t", "_", "c", "a", "s", "e">>
K_start_page_url == <<"s", "t", "a", "r", "t", "_", "p", "a", "g", "e", "_", "u", "r", "l">>
K_relevant_html == <<"r", "e", "l", "e", "v", "a", "n", "t", "_", "h", "t", "m", "l", "_", "c", "o", "n", "t", "e", "n", "t", "_", "t", "o", "_", "t", "e", "s", "t">>
K_test_name == <<"t", "e", "s", "t", "_", "n", "a", "m", "e">>
K_application_url == <<"a", "p", "p", "l", "i", "c", "a", "t", "i", "o", "n", "_", "u", "r", "l">>
K_test_cases == <<"t", "e", "s", "t", "_", "c", "a", "s", "e", "s">>
K_http == <<"h", "t", "t", "p", ":", "/", "/">>
K_https == <<"h", "t", "t", "p", "s", ":", "/", "/">>
K_failing == <<"f", "a", "i", "l", "i", "n", "g">>
K_cy_js == <<".", "c", "y", ".", "j", "s">>
K_md == <<".", "m", "d">>
K_untitled == <<"U", "n", "t", "i", "t", "l", "e", "d", " ", "T", "e", "s", "t", " ", "P", "l", "a", "n">>

E_url == "Please provide a valid URL starting with http:// or https://"
E_llm_analysis == "Unable to access LLM for content analysis"
E_cg_parse == "Input must be a JSON string with 'test_case', 'start_page_url', and optionally 'relevant_html_content_to_test' fields, or a 'query' key containing such a JSON string."
E_cg_type == "Input must be a JSON string."
E_cg_both == "Both 'test_case' and 'start_page_url' must be provided."
E_llm_codegen == "Unable to access LLM for code generation."
E_tp_parse == "Input must be a JSON string with 'test_name', 'application_url', and 'test_cases' fields, or a 'query' key containing such a JSON object."
E_tp_type == "Input must be a JSON string or dict."
E_tp_notdict == "Parsed input is not a dictionary."
E_tp_cases == "At least one test case must be provided."
E_llm_testplan == "Unable to access LLM for test plan generation."
R_cg_ok == "1 test case generated"
R_tp_ok == "Test plan markdown generated successfully"

\* the filename stem keeps this many characters: slugify(test_case)[:40]
StemLimit == 40

(***************************************************************************)
(* slugify and the filenames                                               *)
(***************************************************************************)
\* re.sub(r'[^a-zA-Z0-9]+', '_', text): every maximal run becomes one "_"
SubRuns(s) ==
    LET Piece(i) ==
            IF s[i] \in AlnumChars THEN << s[i] >>
            ELSE IF i > 1 /\ s[i - 1] \notin AlnumChars THEN << >>
            ELSE << "_" >>
    IN FlatMap(Piece, 1, Len(s))

slugify(text) == Lower(StripSet(SubRuns(text), {"_"}))

\* the stem as it comes one character too long
StemOffByOne(text) == Take(slugify(text), StemLimit + 1)

\* slugify(test_case)[:40]
Stem(text) == Take(slugify(text), StemLimit)

\* f"{slugify(test_case)[:40]}.cy.js"
CG_Filename(test_case) == Stem(test_case) \o K_cy_js

\* f"{current_date}_{slugify(test_name)}.md"
TP_Filename(current_date, test_name) == current_date \o <<"_">> \o slugify(test_name) \o K_md

(***************************************************************************)
(* Input normalisation of the three handlers                               *)
(***************************************************************************)
\* re.search(r'https?://\S+', s): [found, text]
UrlStartsAt(s, i) ==
    \/ MatchAt(s, i, K_http) /\ i + 7 <= Len(s) /\ s[i + 7] \notin SpaceChars
    \/ MatchAt(s, i, K_https) /\ i + 8 <= Len(s) /\ s[i + 8] \notin SpaceChars

SearchUrl(s) ==
    IF \E i \in 1..Len(s) : UrlStartsAt(s, i)
    THEN LET b == CHOOSE i \in 1..Len(s) :
                      UrlStartsAt(s, i) /\ \A k \in 1..(i - 1) : ~UrlStartsAt(s, k)
             stops == {k \in b..Len(s) : s[k] \in SpaceChars}
             e == IF stops = {} THEN Len(s)
                  ELSE (CHOOSE k \in stops : \A m \in stops : k <= m) - 1
         IN [found |-> TRUE, text |-> SubSeq(s, b, e)]
    ELSE [found |-> FALSE, text |-> << >>]

\* the value of a 'query' key when the parsed data is a dict holding one, else q
UnwrapQuery(parsed, q) ==
    IF IsDict(parsed) /\ HasKey(parsed, K_query) THEN Lookup(parsed, K_query) ELSE q

\* analyze_webpage, the "Handle JSON input" block: the value of query after it
AW_Normalize(q) ==
    IF ~IsStr(q) THEN q
    ELSE LET s == q.s
             braces == (\E i \in 1..Len(s) : s[i] = "{") /\ (\E i \in 1..Len(s) : s[i] = "}")
             json_part == SubSeq(s, Find(s, "{"), Find(s, "}"))
             url_match == SearchUrl(s)
         IN Bind(IF braces THEN JsonLoads(Replace(json_part, SQ, DQ))
                 ELSE JsonLoads(Replace(Strip(s), SQ, DQ)),
                 LAMBDA r :
                    IF r.ok THEN UnwrapQuery(r.v, q)
                    ELSE IF url_match.found THEN PyStr(url_match.text)
                    ELSE q)

\* url.startswith(('http://', 'https://'))
HasScheme(url) == StartsWith(url, K_http) \/ StartsWith(url, K_https)

\* 'query' in data: ok = FALSE is the TypeError of a value that is no container
InData(data) ==
    CASE data.t = "dict" -> [ok |-> TRUE, v |-> HasKey(data, K_query)]
      [] data.t = "list" -> [ok |-> TRUE, v |-> \E i \in 1..Len(data.items) : data.items[i] = PyStr(K_query)]
      [] data.t = "str" -> [ok |-> TRUE, v |-> Contains(data.s, K_query)]
      [] OTHER -> [ok |-> FALSE, v |-> FALSE]

\* generate_test_automation_code, the parsing block of a string query:
\* ok = FALSE is any exception inside it (all caught by "except Exception")
CG_Parse(s) ==
    LET bad == [ok |-> FALSE, data |-> PyNone]
    IN Bind(JsonLoads(Replace(s, SQ, DQ)), LAMBDA r :
       IF ~r.ok THEN bad
       ELSE LET has == InData(r.v)
            IN IF ~has.ok THEN bad
               ELSE IF ~has.v THEN (IF IsDict(r.v) THEN [ok |-> TRUE, data |-> r.v] ELSE bad)
               ELSE IF ~IsDict(r.v) THEN bad
               ELSE LET inner_query == Lookup(r.v, K_query)
                    IN IF ~IsStr(inner_query) THEN [ok |-> TRUE, data |-> r.v]
                       ELSE Bind(JsonLoads(Replace(inner_query.s, SQ, DQ)), LAMBDA r2 :
                            IF r2.ok /\ IsDict(r2.v) THEN [ok |-> TRUE, data |-> r2.v]
                            ELSE bad))

\* the test that rejects a request only when both fields are missing
CG_MissingBoth(test_case, start_page_url) == ~Truthy(test_case) /\ ~Truthy(start_page_url)

\* "if not test_case or not start_page_url"
CG_Missing(test_case, start_page_url) == ~Truthy(test_case) \/ ~Truthy(start_page_url)

\* generate_test_plan_markdown, the parsing block of a string query:
\* ok = FALSE is any exception inside it
TP_Parse(s) ==
    LET bad == [ok |-> FALSE, data |-> PyNone]
    IN Bind(JsonLoads(Replace(s, SQ, DQ)), LAMBDA r :
       IF ~r.ok THEN bad
       ELSE IF IsDict(r.v) /\ HasKey(r.v, K_query)
       THEN LET inner_query == Lookup(r.v, K_query)
            IN IF IsDict(inner_query) THEN [ok |-> TRUE, data |-> inner_query]
               ELSE IF IsStr(inner_query)
               THEN Bind(JsonLoads(Replace(inner_query.s, SQ, DQ)), LAMBDA r2 :
                    IF r2.ok THEN [ok |-> TRUE, data |-> r2.v]
                    ELSE Bind(LiteralEval(inner_query.s), LAMBDA r3 :
                         IF r3.ok THEN [ok |-> TRUE, data |-> r3.v] ELSE bad))
               ELSE [ok |-> TRUE, data |-> r.v]
       ELSE [ok |-> TRUE, data |-> r.v])

\* "failing" in cypress_output, as a case-sensitive test would have it
IsFailingCaseSensitive(cypress_output) == Contains(cypress_output, K_failing)

\* "failing" in cypress_output.lower()
IsFailing(cypress_output) == Contains(Lower(cypress_output), K_failing)

\* result.stdout.decode() + '\n' + result.stderr.decode()
CypressOutput(stdout, stderr) == stdout \o <<"\n">> \o stderr

(***************************************************************************)
(* The payloads the agent framework hands to the handlers                  *)
(***************************************************************************)
Absent == [t |-> "absent"]

\* a dict of the fields that are present
MkDict(fields) ==
    PyDict([i \in 1..Len(SelectSeq(fields, LAMBDA f : f[2] # Absent)) |->
               << PyStr(SelectSeq(fields, LAMBDA f : f[2] # Absent)[i][1]),
                  SelectSeq(fields, LAMBDA f : f[2] # Absent)[i][2] >>])

DigitChar(n) == CHOOSE c \in DigitChars : DigitVal(c) = n

EscapeText(s) ==
    LET Piece(i) == IF s[i] \in {DQ, BSL} THEN << BSL, s[i] >> ELSE << s[i] >>
    IN FlatMap(Piece, 1, Len(s))

\* the text of a value, strings quoted with q (json.dumps for q = DQ, the
\* look of str(dict) for q = SQ); integers are single digits
RECURSIVE Dumps(_, _)
RECURSIVE DumpsSeq(_, _, _, _)
Dumps(v, q) ==
    CASE v.t = "none" -> <<"n", "u", "l", "l">>
      [] v.t = "bool" -> (IF v.b THEN <<"t", "r", "u", "e">> ELSE <<"f", "a", "l", "s", "e">>)
      [] v.t = "int" -> << DigitChar(v.n) >>
      [] v.t = "str" -> << q >> \o EscapeText(v.s) \o << q >>
      [] v.t = "list" -> <<"[">> \o DumpsSeq(v.items, 1, q, FALSE) \o <<"]">>
      [] v.t = "dict" -> <<"{">> \o DumpsSeq(v.pairs, 1, q, TRUE) \o <<"}">>

DumpsSeq(xs, i, q, isDict) ==
    IF i > Len(xs) THEN << >>
    ELSE (IF i > 1 THEN <<",", " ">> ELSE << >>)
         \o (IF isDict THEN Dumps(xs[i][1], q) \o <<":", " ">> \o Dumps(xs[i][2], q)
             ELSE Dumps(xs[i], q))
         \o DumpsSeq(xs, i + 1, q, isDict)

Wrap(v) == PyDict(<< << PyStr(K_query), v >> >>)

Encodings == {"json", "pyrepr", "wrapped_str", "wrapped_dict", "mapping"}

\* the payload that carries request req in encoding enc
Encode(req, enc) ==
    CASE enc = "json" -> PyStr(Dumps(req, DQ))
      [] enc = "pyrepr" -> PyStr(Dumps(req, SQ))
      [] enc = "wrapped_str" -> PyStr(Dumps(Wrap(PyStr(Dumps(req, DQ))), DQ))
      [] enc = "wrapped_dict" -> PyStr(Dumps(Wrap(req), DQ))
      [] enc = "mapping" -> req

T_http_a == <<"h", "t", "t", "p", ":", "/", "/", "a">>
T_https_a == <<"h", "t", "t", "p", "s", ":", "/", "/", "a">>
T_padded == <<" ", "h", "t", "t", "p", ":", "/", "/", "a", " ">>
T_a == <<"a">>
T_ftp == <<"f", "t", "p", ":", "/", "/", "a">>
T_in_text == <<"g", "o", " ", "h", "t", "t", "p", ":", "/", "/", "a", " ", "b">>
T_in_braces == <<"x", " ", "{", "\"", "q", "u", "e", "r", "y", "\"", ":", " ", "\"", "h", "t", "t", "p", ":", "/", "/", "a", "\"", "}", " ", "y">>
T_A_b == <<"A", " ", "b">>
T_a_b == <<"a", "-", "b">>
T_no_json == <<"n", "o", " ", "j", "s", "o", "n">>
T_list == <<"[", "]">>
T_5 == <<"5">>
T_quoted_query == <<"\"", "q", "u", "e", "r", "y", "\"">>
T_its == <<"i", "t", "'", "s">>
T_c == <<"c">>
T_u == <<"u">>
T_trailing_list == <<"[", "1", ",", "]">>
T_trailing_dict == <<"{", "\"", "t", "e", "s", "t", "_", "c", "a", "s", "e", "s", "\"", ":", " ", "[", "\"", "c", "\"", "]", ",", "}">>
T_nope == <<"n", "o", "p", "e">>
T_date == <<"2", "0", "2", "5", "0", "1", "0", "1">>
T_code1 == <<" ", "c", "1", "\n">>
T_code2 == <<"c", "2">>
T_lines == <<"u", "1", "\n", "\n", " ", "u", "2", " ">>
T_ok == <<"o", "k">>
T_1_Failing == <<"1", " ", "F", "a", "i", "l", "i", "n", "g">>
T_html == <<"<", "p", ">">>

Raw == [req |-> Absent, enc |-> "raw"]

\* analyze_webpage: plain and wrapped URLs, other text, payloads that are no string
AW_Inputs ==
    {PyStr(u) : u \in {T_http_a, T_https_a, T_padded, T_a, T_ftp, T_in_text, T_in_braces, T_5, << >>}}
    \cup {PyStr(Dumps(Wrap(v), q)) :
            v \in {PyStr(T_http_a), PyStr(T_a), PyInt(5)}, q \in {DQ, SQ}}
    \cup {PyInt(5), Wrap(PyStr(T_http_a))}

\* generate_test_automation_code: [q |-> payload, given |-> what it encodes]
CG_Requests ==
    {MkDict(<< << K_test_case, tc >>, << K_start_page_url, su >> >>) :
        tc \in {Absent, PyNone, PyStr(<< >>), PyStr(T_A_b), PyStr(T_a_b), PyInt(7)},
        su \in {Absent, PyStr(<< >>), PyStr(T_http_a)}}
    \cup {MkDict(<< << K_test_case, PyStr(T_A_b) >>, << K_start_page_url, PyStr(T_http_a) >>,
                    << K_relevant_html, PyStr(T_html) >> >>)}

CG_Inputs ==
    {[q |-> Encode(r, e), given |-> [req |-> r, enc |-> e]] : r \in CG_Requests, e \in Encodings}
    \cup {[q |-> PyStr(x), given |-> Raw] : x \in {T_no_json, T_list, T_5, T_quoted_query}}
    \cup {[q |-> PyInt(5), given |-> Raw]}

\* generate_test_plan_markdown
TP_Requests ==
    {MkDict(<< << K_test_name, tn >>, << K_application_url, au >>, << K_test_cases, cs >> >>) :
        tn \in {Absent, PyStr(T_its), PyInt(7)},
        au \in {Absent, PyStr(T_u)},
        cs \in {Absent, PyNone, PyList(<< >>), PyList(<< PyStr(T_c) >>), PyStr(T_c)}}

TP_Inputs ==
    {[q |-> Encode(r, e), given |-> [req |-> r, enc |-> e]] : r \in TP_Requests, e \in Encodings}
    \cup {[q |-> Wrap(r), given |-> [req |-> r, enc |-> "wrapped_mapping"]] :
            r \in {MkDict(<< << K_test_cases, PyList(<< PyStr(T_c) >>) >> >>)}}
    \cup {[q |-> PyStr(x), given |-> Raw] : x \in {T_no_json, T_list}}
    \cup {[q |-> PyStr(Dumps(Wrap(v), DQ)), given |-> Raw] :
            v \in {PyInt(5), PyStr(T_trailing_list), PyStr(T_trailing_dict), PyStr(T_nope)}}
    \cup {[q |-> PyInt(5), given |-> Raw]}

(***************************************************************************)
(* State                                                                   *)
(***************************************************************************)
\* concurrent invocations in SpecConc; Spec runs one invocation at a time
NumTasks == 2
Tasks == 1..NumTasks
SeqTasks == {1}

VARIABLES
    handler,    \* handler[t]: the handler task t is running, "none" when idle
    pc,         \* pc[t]: "idle", the external step the task is about to take, "done" or "raised"
    locals,     \* locals[t]: the handler's local variables
    result,     \* result[t]: the object whose JSON text the handler returned
    trace,      \* trace[t]: the external steps the invocation has taken, in order
    given,      \* given[t]: the request the payload encodes, and how
    fsBefore,   \* fsBefore[t]: the output directory when the invocation began
    fs,         \* the output directory: filename -> [text, by]
    running,    \* the task that holds the event loop, 0 when none does
    text,       \* SpecSlug: the title being slugified
    stem,       \* SpecSlug: the stem of text
    stem2,      \* SpecSlug: the stem of stem
    stage       \* SpecSlug: "off", "input", "once" or "twice"

vars == << handler, pc, locals, result, trace, given, fsBefore, fs, running,
           text, stem, stem2, stage >>
slugVars == << text, stem, stem2, stage >>
handlerVars == << handler, pc, locals, result, trace, given, fsBefore, fs, running >>

NoResult == [pending |-> TRUE]
EmptyDir == [f \in {} |-> Absent]

NoLocals ==
    [ query |-> PyNone, data |-> Absent, url |-> << >>, html_content |-> << >>,
      llm |-> FALSE, urls |-> << >>, tests |-> << >>,
      test_case |-> PyNone, start_page_url |-> PyNone,
      relevant_html_content_to_test |-> PyNone,
      test_name |-> PyNone, application_url |-> PyNone, test_cases |-> PyNone,
      code |-> << >>, file_path |-> << >>, cypress_output |-> Absent,
      written |-> Absent, executed |-> Absent ]

Exc(type, msg) == [type |-> type, msg |-> msg]

\* the classes the handlers' "except Exception" clauses catch: every exception
\* the modelled steps raise derives from Exception
ExceptionClasses ==
    {"AttributeError", "TypeError", "ValueError", "OSError", "FileNotFoundError",
     "UnicodeDecodeError", "RuntimeError", "ConnectError", "HTTPStatusError"}

\* a handler that caught only ValueError and its subclasses
CatchesValueErrorOnly(h, e) == e.type \in {"ValueError", "UnicodeDecodeError"}

\* "except Exception as e" around the whole body of handler h
OuterCatches(h, e) == e.type \in ExceptionClasses

\* the error object with a success field left in it
ExceptResultWithStatus(h, e) ==
    [error |-> e.type \o ": " \o e.msg, result |-> "failed"]

\* the object the except clause of handler h returns
ExceptResult(h, e) ==
    IF h = "analyze_webpage" THEN [error |-> e.msg]
    ELSE [ error |-> e.type \o ": " \o e.msg,
           traceback |-> "Traceback (most recent call last): " \o e.type ]

\* the suspension points when the test runner is awaited as well
AwaitPointsAsyncRunner == {"fetch", "get_llm", "run"}

\* the steps a task waits for inside an await: client.get and builder.get_llm;
\* llm.invoke, open/write and subprocess.run block the event loop
AwaitPoints == {"fetch", "get_llm"}

\* the order of analyze_webpage's external steps
AW_After(step) ==
    CASE step = "validated" -> "fetch"
      [] step = "fetch" -> "get_llm"
      [] step = "get_llm" -> "invoke_urls"
      [] step = "invoke_urls" -> "invoke_tests"
      [] step = "invoke_tests" -> "return"

\* the order with the file created before the model handle is looked up
CG_AfterWriteFirst(step, failing) ==
    CASE step = "validated" -> "write1"
      [] step = "write1" -> "get_llm"
      [] step = "get_llm" -> "invoke1"
      [] step = "invoke1" -> "run"
      [] step = "run" -> (IF failing THEN "invoke2" ELSE "return")
      [] step = "invoke2" -> "write2"
      [] step = "write2" -> "return"

\* the order of generate_test_automation_code's external steps
CG_After(step, failing) ==
    CASE step = "validated" -> "get_llm"
      [] step = "get_llm" -> "invoke1"
      [] step = "invoke1" -> "write1"
      [] step = "write1" -> "run"
      [] step = "run" -> (IF failing THEN "invoke2" ELSE "return")
      [] step = "invoke2" -> "write2"
      [] step = "write2" -> "return"

\* the order of generate_test_plan_markdown's external steps
TP_After(step) ==
    CASE step = "validated" -> "get_llm"
      [] step = "get_llm" -> "invoke1"
      [] step = "invoke1" -> "write1"
      [] step = "write1" -> "return"

\* with open(file_path, 'w') as f: f.write(content), by its outcome: written,
\* failed before the file was opened, or failed after open() had truncated it
WriteFile(F, path, content, t, outcome) ==
    CASE outcome = "ok" -> (path :> [text |-> content, by |-> t]) @@ F
      [] outcome = "raise_before_open" -> F
      [] outcome = "raise_after_open" -> (path :> [text |-> << >>, by |-> t]) @@ F

WriteOutcomes == {"ok", "raise_before_open", "raise_after_open"}
LookupOutcomes == {"handle", "none", "raise"}
\* what llm.invoke(...).content can be; "raise" is the call raising
ModelContents == {T_code1, T_code2}
\* the content of the Code Generator's first reply, to be stripped
GeneratedContents == {T_code1}
AnalysisContents == {T_lines, << >>}
\* (stdout, stderr) of the test runner
RunnerOutputs == {<< T_ok, << >> >>, << T_1_Failing, << >> >>, << T_ok, K_failing >>}

(***************************************************************************)
(* Steps                                                                   *)
(***************************************************************************)
\* task t moves to p with new locals, result and trace
Step(t, p, loc, res, tr) ==
    /\ pc' = [pc EXCEPT ![t] = p]
    /\ locals' = [locals EXCEPT ![t] = loc]
    /\ result' = [result EXCEPT ![t] = res]
    /\ trace' = [trace EXCEPT ![t] = tr]
    /\ running' = IF p \in AwaitPoints \cup {"done", "raised"} THEN 0 ELSE t

\* return json.dumps(res)
Return(t, loc, res, tr) == Step(t, "done", loc, res, tr)

\* exception e leaves the body of handler h
Throw(t, h, e, loc, tr) ==
    IF OuterCatches(h, e)
    THEN Step(t, "done", loc, ExceptResult(h, e), tr)
    ELSE Step(t, "raised", loc, NoResult, tr)

\* the framework calls handler h on an idle task
Begin(t, h, g) ==
    /\ pc[t] = "idle"
    /\ running = 0
    /\ handler' = [handler EXCEPT ![t] = h]
    /\ given' = [given EXCEPT ![t] = g]
    /\ fsBefore' = [fsBefore EXCEPT ![t] = fs]
    /\ UNCHANGED slugVars

\* task t, running handler h, takes external step p
At(t, h, p) ==
    /\ handler[t] = h
    /\ pc[t] = p
    /\ running \in {0, t}
    /\ UNCHANGED << handler, given, fsBefore, slugVars >>

---------------------------------------------------------------------------
\* analyze_webpage up to the await of client.get
AW_Start(t, q) ==
    \E nq \in {AW_Normalize(q)} :
        LET h == "analyze_webpage"
            loc == [NoLocals EXCEPT !.query = nq]
            url == Strip(nq.s)
        IN IF ~IsStr(nq)
           THEN Throw(t, h, Exc("AttributeError",
                                "'" \o TypeName(nq) \o "' object has no attribute 'strip'"),
                      loc, << >>)
           ELSE IF ~HasScheme(url) THEN Return(t, loc, [error |-> E_url], << >>)
           ELSE Step(t, AW_After("validated"), [loc EXCEPT !.url = url], NoResult, << >>)

AW_Invoke(t) ==
    \E q \in AW_Inputs :
        /\ Begin(t, "analyze_webpage", Raw)
        /\ AW_Start(t, q)
        /\ UNCHANGED fs

\* response = await client.get(url); response.raise_for_status(); response.text
AW_Fetch(t) ==
    /\ At(t, "analyze_webpage", "fetch")
    /\ UNCHANGED fs
    /\ LET h == "analyze_webpage"
           tr == Append(trace[t], "fetch")
       IN \E o \in {"ok", "connect_error", "status_error"} :
            CASE o = "ok" ->
                    Step(t, AW_After("fetch"), [locals[t] EXCEPT !.html_content = T_html],
                         NoResult, tr)
              [] o = "connect_error" ->
                    Throw(t, h, Exc("ConnectError", "All connection attempts failed"), locals[t], tr)
              [] o = "status_error" ->
                    Throw(t, h, Exc("HTTPStatusError", "Client error '404 Not Found'"), locals[t], tr)

\* llm = await builder.get_llm(...); if not llm: return the error
AW_GetLlm(t) ==
    /\ At(t, "analyze_webpage", "get_llm")
    /\ UNCHANGED fs
    /\ LET h == "analyze_webpage"
           tr == Append(trace[t], "lookup")
       IN \E o \in LookupOutcomes :
            CASE o = "handle" ->
                    Step(t, AW_After("get_llm"), [locals[t] EXCEPT !.llm = TRUE], NoResult, tr)
              [] o = "none" -> Return(t, locals[t], [error |-> E_llm_analysis], tr)
              [] o = "raise" -> Throw(t, h, Exc("ValueError", "LLM not found"), locals[t], tr)

\* url_response = llm.invoke(...); urls = the non-empty stripped lines
AW_InvokeUrls(t) ==
    /\ At(t, "analyze_webpage", "invoke_urls")
    /\ UNCHANGED fs
    /\ LET h == "analyze_webpage"
           tr == Append(trace[t], "llm")
       IN \/ Throw(t, h, Exc("RuntimeError", "model call failed"), locals[t], tr)
          \/ \E c \in AnalysisContents :
                Step(t, AW_After("invoke_urls"),
                     [locals[t] EXCEPT !.urls = NonEmptyLines(c)], NoResult, tr)

\* test_response = llm.invoke(...); tests = ...; return json.dumps(result)
AW_InvokeTests(t) ==
    /\ At(t, "analyze_webpage", "invoke_tests")
    /\ UNCHANGED fs
    /\ LET h == "analyze_webpage"
           tr == Append(trace[t], "llm")
       IN \/ Throw(t, h, Exc("RuntimeError", "model call failed"), locals[t], tr)
          \/ \E c \in AnalysisContents :
                LET loc == [locals[t] EXCEPT !.tests = NonEmptyLines(c)]
                IN Return(t, loc, [urls |-> loc.urls, tests |-> loc.tests], tr)

---------------------------------------------------------------------------
\* {"result": "1 test case generated", "test_file_path": file_path}
CG_Success(file_path) == [result |-> R_cg_ok, test_file_path |-> file_path]

\* generate_test_automation_code up to the await of builder.get_llm
CG_Start(t, q) ==
    IF ~IsStr(q)
    THEN Return(t, [NoLocals EXCEPT !.query = q], [error |-> E_cg_type], << >>)
    ELSE \E r \in {CG_Parse(q.s)} :
        LET tc == Get(r.data, K_test_case, PyNone)
            su == Get(r.data, K_start_page_url, PyNone)
            loc == [NoLocals EXCEPT !.query = q, !.data = r.data, !.test_case = tc,
                                    !.start_page_url = su,
                                    !.relevant_html_content_to_test =
                                        Get(r.data, K_relevant_html, PyNone)]
        IN IF ~r.ok
           THEN Return(t, [NoLocals EXCEPT !.query = q], [error |-> E_cg_parse], << >>)
           ELSE IF CG_Missing(tc, su) THEN Return(t, loc, [error |-> E_cg_both], << >>)
           ELSE Step(t, CG_After("validated", FALSE), loc, NoResult, << >>)

CG_Invoke(t) ==
    \E i \in CG_Inputs :
        /\ Begin(t, "generate_test_automation_code", i.given)
        /\ CG_Start(t, i.q)
        /\ UNCHANGED fs

\* llm = await builder.get_llm(...); if not llm: return the error
CG_GetLlm(t) ==
    /\ At(t, "generate_test_automation_code", "get_llm")
    /\ UNCHANGED fs
    /\ LET h == "generate_test_automation_code"
           tr == Append(trace[t], "lookup")
       IN \E o \in LookupOutcomes :
            CASE o = "handle" ->
                    Step(t, CG_After("get_llm", FALSE), [locals[t] EXCEPT !.llm = TRUE],
                         NoResult, tr)
              [] o = "none" -> Return(t, locals[t], [error |-> E_llm_codegen], tr)
              [] o = "raise" -> Throw(t, h, Exc("ValueError", "LLM not found"), locals[t], tr)

\* response = llm.invoke(...); code = response.content.strip()
CG_Invoke1(t) ==
    /\ At(t, "generate_test_automation_code", "invoke1")
    /\ UNCHANGED fs
    /\ LET h == "generate_test_automation_code"
           tr == Append(trace[t], "llm")
       IN \/ Throw(t, h, Exc("RuntimeError", "model call failed"), locals[t], tr)
          \/ \E c \in GeneratedContents :
                Step(t, CG_After("invoke1", FALSE), [locals[t] EXCEPT !.code = Strip(c)],
                     NoResult, tr)

\* os.makedirs; filename = slugify(test_case)[:40] + ".cy.js"; open and write
CG_Write1(t) ==
    /\ At(t, "generate_test_automation_code", "write1")
    /\ LET h == "generate_test_automation_code"
           tc == locals[t].test_case
           path == CG_Filename(tc.s)
           loc == [locals[t] EXCEPT !.file_path = path]
           tr == Append(trace[t], "write")
       IN IF ~IsStr(tc)
          THEN /\ Throw(t, h, Exc("TypeError", "expected string or bytes-like object"),
                        locals[t], trace[t])
               /\ UNCHANGED fs
          ELSE \E o \in WriteOutcomes :
                /\ fs' = WriteFile(fs, path, locals[t].code, t, o)
                /\ IF o = "ok"
                   THEN Step(t, CG_After("write1", FALSE),
                             [loc EXCEPT !.written = locals[t].code], NoResult, tr)
                   ELSE Throw(t, h, Exc("OSError", "No space left on device"), loc, tr)

\* result = subprocess.run(['npx', 'cypress', 'run', '--spec', file_path], ...);
\* cypress_output = stdout + '\n' + stderr; the "failing" test
CG_Run(t) ==
    /\ At(t, "generate_test_automation_code", "run")
    /\ UNCHANGED fs
    /\ LET h == "generate_test_automation_code"
           tr == Append(trace[t], "run")
           ran == [locals[t] EXCEPT !.executed = fs[locals[t].file_path]]
       IN \/ Throw(t, h, Exc("FileNotFoundError", "No such file or directory: 'npx'"),
                   locals[t], tr)
          \/ Throw(t, h, Exc("UnicodeDecodeError", "invalid start byte"), ran, tr)
          \/ \E o \in RunnerOutputs :
                LET out == CypressOutput(o[1], o[2])
                    loc == [ran EXCEPT !.cypress_output = out]
                    nxt == CG_After("run", IsFailing(out))
                IN IF nxt = "return"
                   THEN Return(t, loc, CG_Success(loc.file_path), tr)
                   ELSE Step(t, nxt, loc, NoResult, tr)

\* fix_response = llm.invoke(...); fixed_code = fix_response.content.strip()
CG_Invoke2(t) ==
    /\ At(t, "generate_test_automation_code", "invoke2")
    /\ UNCHANGED fs
    /\ LET h == "generate_test_automation_code"
           tr == Append(trace[t], "llm")
       IN \/ Throw(t, h, Exc("RuntimeError", "model call failed"), locals[t], tr)
          \/ \E c \in ModelContents :
                Step(t, CG_After("invoke2", FALSE), [locals[t] EXCEPT !.code = Strip(c)],
                     NoResult, tr)

\* the file is overwritten with fixed_code; return the success object
CG_Write2(t) ==
    /\ At(t, "generate_test_automation_code", "write2")
    /\ LET h == "generate_test_automation_code"
           tr == Append(trace[t], "write")
           nxt == CG_After("write2", FALSE)
       IN \E o \in WriteOutcomes :
            /\ fs' = WriteFile(fs, locals[t].file_path, locals[t].code, t, o)
            /\ IF o # "ok"
               THEN Throw(t, h, Exc("OSError", "No space left on device"), locals[t], tr)
               ELSE IF nxt = "return"
               THEN Return(t, locals[t], CG_Success(locals[t].file_path), tr)
               ELSE Step(t, nxt, locals[t], NoResult, tr)

---------------------------------------------------------------------------
\* {"result": "Test plan markdown generated successfully", "file_path": file_path}
TP_Success(file_path) == [result |-> R_tp_ok, file_path |-> file_path]

\* generate_test_plan_markdown up to the await of builder.get_llm
TP_Start(t, q) ==
    LET plain == [NoLocals EXCEPT !.query = q]
    IN IF ~IsStr(q) /\ ~IsDict(q) THEN Return(t, plain, [error |-> E_tp_type], << >>)
       ELSE \E r \in {IF IsStr(q) THEN TP_Parse(q.s) ELSE [ok |-> TRUE, data |-> q]} :
            LET data == r.data
                loc == [plain EXCEPT !.data = data,
                           !.test_name = Get(data, K_test_name, PyStr(K_untitled)),
                           !.application_url = Get(data, K_application_url, PyStr(<< >>)),
                           !.test_cases = Get(data, K_test_cases, PyList(<< >>))]
            IN IF ~r.ok THEN Return(t, plain, [error |-> E_tp_parse], << >>)
               ELSE IF ~IsDict(data)
               THEN Return(t, [plain EXCEPT !.data = data], [error |-> E_tp_notdict], << >>)
               ELSE IF ~Truthy(loc.test_cases) THEN Return(t, loc, [error |-> E_tp_cases], << >>)
               ELSE Step(t, TP_After("validated"), loc, NoResult, << >>)

TP_Invoke(t) ==
    \E i \in TP_Inputs :
        /\ Begin(t, "generate_test_plan_markdown", i.given)
        /\ TP_Start(t, i.q)
        /\ UNCHANGED fs

\* llm = await builder.get_llm(...); if not llm: return the error
TP_GetLlm(t) ==
    /\ At(t, "generate_test_plan_markdown", "get_llm")
    /\ UNCHANGED fs
    /\ LET h == "generate_test_plan_markdown"
           tr == Append(trace[t], "lookup")
       IN \E o \in LookupOutcomes :
            CASE o = "handle" ->
                    Step(t, TP_After("get_llm"), [locals[t] EXCEPT !.llm = TRUE], NoResult, tr)
              [] o = "none" -> Return(t, locals[t], [error |-> E_llm_testplan], tr)
              [] o = "raise" -> Throw(t, h, Exc("ValueError", "LLM not found"), locals[t], tr)

\* response = llm.invoke(...); markdown_content = response.content.strip()
TP_Invoke1(t) ==
    /\ At(t, "generate_test_plan_markdown", "invoke1")
    /\ UNCHANGED fs
    /\ LET h == "generate_test_plan_markdown"
           tr == Append(trace[t], "llm")
       IN \/ Throw(t, h, Exc("RuntimeError", "model call failed"), locals[t], tr)
          \/ \E c \in ModelContents :
                Step(t, TP_After("invoke1"), [locals[t] EXCEPT !.code = Strip(c)],
                     NoResult, tr)

\* os.makedirs; filename = date + "_" + slugify(test_name) + ".md"; open and
\* write; return the success object
TP_Write1(t) ==
    /\ At(t, "generate_test_plan_markdown", "write1")
    /\ LET h == "generate_test_plan_markdown"
           tn == locals[t].test_name
           tr == Append(trace[t], "write")
       IN IF ~IsStr(tn)
          THEN /\ Throw(t, h, Exc("TypeError", "expected string or bytes-like object"),
                        locals[t], trace[t])
               /\ UNCHANGED fs
          ELSE \E o \in WriteOutcomes, current_date \in {T_date} :
                LET path == TP_Filename(current_date, tn.s)
                    loc == [locals[t] EXCEPT !.file_path = path]
                IN /\ fs' = WriteFile(fs, path, locals[t].code, t, o)
                   /\ IF o = "ok"
                      THEN Return(t, [loc EXCEPT !.written = locals[t].code],
                                  TP_Success(path), tr)
                      ELSE Throw(t, h, Exc("OSError", "No space left on device"), loc, tr)

---------------------------------------------------------------------------
\* the output directory outlives the invocations: it is empty, or holds the
\* files earlier invocations (task 0) left under the same names
EarlierFiles ==
    LET old == [text |-> Strip(T_code2), by |-> 0]
    IN (CG_Filename(T_A_b) :> old) @@ (TP_Filename(T_date, K_untitled) :> old)
       @@ (TP_Filename(T_date, T_its) :> old)

InitialDirs == {EmptyDir, EarlierFiles}

Init ==
    /\ handler = [t \in Tasks |-> "none"]
    /\ pc = [t \in Tasks |-> "idle"]
    /\ locals = [t \in Tasks |-> NoLocals]
    /\ result = [t \in Tasks |-> NoResult]
    /\ trace = [t \in Tasks |-> << >>]
    /\ given = [t \in Tasks |-> Raw]
    /\ fs \in InitialDirs
    /\ fsBefore = [t \in Tasks |-> fs]
    /\ running = 0
    /\ text = << >>
    /\ stem = << >>
    /\ stem2 = << >>
    /\ stage = "off"

\* one invocation, of any handler, on any payload
Next ==
    \E t \in SeqTasks :
        \/ AW_Invoke(t)
        \/ AW_Fetch(t)
        \/ AW_GetLlm(t)
        \/ AW_InvokeUrls(t)
        \/ AW_InvokeTests(t)
        \/ CG_Invoke(t)
        \/ CG_GetLlm(t)
        \/ CG_Invoke1(t)
        \/ CG_Write1(t)
        \/ CG_Run(t)
        \/ CG_Invoke2(t)
        \/ CG_Write2(t)
        \/ TP_Invoke(t)
        \/ TP_GetLlm(t)
        \/ TP_Invoke1(t)
        \/ TP_Write1(t)

Spec == Init /\ [][Next]_vars

(***************************************************************************)
(* SpecConc: Code Generator invocations with the same file path, as tasks  *)
(* of one event loop                                                       *)
(***************************************************************************)
\* the one request both invocations are given
SameRequest ==
    MkDict(<< << K_test_case, PyStr(T_A_b) >>, << K_start_page_url, PyStr(T_http_a) >> >>)

ConcInputs == {i \in CG_Inputs : i.given = [req |-> SameRequest, enc |-> "json"]}

CG_InvokeSame(t) ==
    \E i \in ConcInputs :
        /\ Begin(t, "generate_test_automation_code", i.given)
        /\ CG_Start(t, i.q)
        /\ UNCHANGED fs

NextConc ==
    \E t \in Tasks :
        \/ CG_InvokeSame(t)
        \/ CG_GetLlm(t)
        \/ CG_Invoke1(t)
        \/ CG_Write1(t)
        \/ CG_Run(t)
        \/ CG_Invoke2(t)
        \/ CG_Write2(t)

InitConc == Init /\ fs = EmptyDir

SpecConc == InitConc /\ [][NextConc]_vars

(***************************************************************************)
(* SpecSlug: the filename stem of a title, and the stem of the stem        *)
(***************************************************************************)
\* titles: up to MaxPad letters followed by up to MaxTail characters
MaxPad == 40
MaxTail == 3
SlugAlphabet == {"a", "B", "-", "_"}

SlugTitles ==
    {[i \in 1..k |-> "a"] \o tl :
        k \in 0..MaxPad, tl \in UNION {[1..n -> SlugAlphabet] : n \in 0..MaxTail}}

InitSlug ==
    /\ handler = [t \in Tasks |-> "none"]
    /\ pc = [t \in Tasks |-> "idle"]
    /\ locals = [t \in Tasks |-> NoLocals]
    /\ result = [t \in Tasks |-> NoResult]
    /\ trace = [t \in Tasks |-> << >>]
    /\ given = [t \in Tasks |-> Raw]
    /\ fs = EmptyDir
    /\ fsBefore = [t \in Tasks |-> EmptyDir]
    /\ running = 0
    /\ text \in SlugTitles
    /\ stem = << >>
    /\ stem2 = << >>
    /\ stage = "input"

SlugOnce ==
    /\ stage = "input"
    /\ stem' = Stem(text)
    /\ stage' = "once"
    /\ UNCHANGED << handlerVars, text, stem2 >>

SlugTwice ==
    /\ stage = "once"
    /\ stem2' = Stem(stem)
    /\ stage' = "twice"
    /\ UNCHANGED << handlerVars, text, stem >>

NextSlug == SlugOnce \/ SlugTwice

SpecSlug == InitSlug /\ [][NextSlug]_vars

(***************************************************************************)
(* Properties                                                              *)
(***************************************************************************)
Count(tr, ev) == Cardinality({i \in 1..Len(tr) : tr[i] = ev})
Events(tr) == {tr[i] : i \in 1..Len(tr)}
IsError(r) == "error" \in DOMAIN r
CodeGen == "generate_test_automation_code"
TestPlan == "generate_test_plan_markdown"
Analyzer == "analyze_webpage"

\* the runner output says "failing" in any mix of cases
SaysFailing(out) ==
    \E i \in 1..(Len(out) - 6) : \A k \in 1..7 : LowerChar(out[i + k - 1]) = K_failing[k]

\* a field is absent, null or empty
Lacks(d, key) ==
    \/ ~HasKey(d, key)
    \/ Lookup(d, key) \in {PyNone, PyStr(<< >>), PyList(<< >>), PyDict(<< >>)}

\* C1: whatever the payload and whatever each external step does (return or
\* raise), no exception leaves a handler, and a finished invocation has
\* returned a JSON object made of the handlers' fields.
C1_NoExceptionEscapes ==
    \A t \in Tasks :
        /\ pc[t] # "raised"
        /\ pc[t] = "done" =>
              /\ result[t] # NoResult
              /\ DOMAIN result[t] \subseteq {"error", "traceback", "urls", "tests",
                                             "result", "test_file_path", "file_path"}

\* C1 witness: a failing test runner was caught and reported
C1_Witness ==
    \E t \in Tasks :
        /\ pc[t] = "done"
        /\ handler[t] = CodeGen
        /\ trace[t] = << "lookup", "llm", "write", "run" >>
        /\ "traceback" \in DOMAIN result[t]

\* C2: the Code Generator's repair is one-shot: at most one runner start and
\* two model calls; the second call is made exactly when the captured output
\* says "failing"; after the repair the file holds the corrected code and the
\* runner is not started again before the success result.
C2_RepairIsOneShot ==
    \A t \in Tasks :
        handler[t] = CodeGen =>
            LET tr == trace[t]
                out == locals[t].cypress_output
                failing == out # Absent /\ SaysFailing(out)
            IN /\ Count(tr, "run") <= 1
               /\ Count(tr, "llm") <= 2
               /\ Count(tr, "llm") = 2 => failing
               /\ (pc[t] = "done" /\ failing) => Count(tr, "llm") = 2
               /\ (pc[t] = "done" /\ ~IsError(result[t]) /\ failing) =>
                      /\ tr = << "lookup", "llm", "write", "run", "llm", "write" >>
                      /\ fs[locals[t].file_path].text = locals[t].code

\* C2 witness: a repair happened and the invocation returned success
C2_Witness ==
    \E t \in Tasks :
        /\ pc[t] = "done"
        /\ handler[t] = CodeGen
        /\ ~IsError(result[t])
        /\ Count(trace[t], "llm") = 2
        /\ locals[t].code # locals[t].written

\* C3: a Code Generator payload that normalises to a mapping lacking
\* test_case or start_page_url is answered with the "Both ..." error, and
\* nothing external has happened: no lookup, model call, file write or run.
C3_MissingFieldsError ==
    \A t \in Tasks :
        (/\ handler[t] = CodeGen
         /\ locals[t].data # Absent
         /\ Lacks(locals[t].data, K_test_case) \/ Lacks(locals[t].data, K_start_page_url))
        => /\ pc[t] = "done"
           /\ result[t] = [error |-> E_cg_both]
           /\ trace[t] = << >>
           /\ fs = fsBefore[t]

\* C3 witness: a nested JSON string without start_page_url was rejected
C3_Witness ==
    \E t \in Tasks :
        /\ handler[t] = CodeGen
        /\ pc[t] = "done"
        /\ given[t].enc = "wrapped_str"
        /\ ~Lacks(locals[t].data, K_test_case)
        /\ Lacks(locals[t].data, K_start_page_url)
        /\ result[t] = [error |-> E_cg_both]

\* C4 (as claimed): every Webpage Analyzer input whose normalised value does
\* not start with http:// or https://, a value that is no string included,
\* is answered with exactly the URL error.
C4_Claimed ==
    \A t \in Tasks :
        (/\ handler[t] = Analyzer
         /\ pc[t] = "done"
         /\ ~(IsStr(locals[t].query) /\ HasScheme(Strip(locals[t].query.s))))
        => result[t] = [error |-> E_url]

\* C5 (as claimed): a Test-Plan Generator request whose test_cases is empty
\* or absent is answered with the "At least one ..." error, whatever the
\* other fields hold and however the request is encoded.
C5_Claimed ==
    \A t \in Tasks :
        (/\ handler[t] = TestPlan
         /\ pc[t] = "done"
         /\ given[t].enc \in Encodings
         /\ \/ ~HasKey(given[t].req, K_test_cases)
            \/ Lookup(given[t].req, K_test_cases) = PyList(<< >>))
        => result[t] = [error |-> E_tp_cases]

\* the handler's "Unable to access LLM ..." text
UnableText(h) ==
    CASE h = Analyzer -> E_llm_analysis
      [] h = CodeGen -> E_llm_codegen
      [] h = TestPlan -> E_llm_testplan

\* C6 (as claimed): an invocation that ends at the handle lookup (no handle,
\* or the lookup failed) returns the handler's "Unable to access LLM ..."
\* error and no traceback.
C6_Claimed ==
    \A t \in Tasks :
        (/\ pc[t] = "done"
         /\ trace[t] # << >>
         /\ trace[t][Len(trace[t])] = "lookup")
        => result[t] = [error |-> UnableText(handler[t])]

\* C7 (as claimed): an invocation that returns an error has left the output
\* directory as it found it.
C7_Claimed ==
    \A t \in Tasks :
        (pc[t] = "done" /\ IsError(result[t])) => fs = fsBefore[t]

ValidationAndHandleErrors ==
    {E_url, E_llm_analysis, E_cg_parse, E_cg_type, E_cg_both, E_llm_codegen,
     E_tp_parse, E_tp_type, E_tp_notdict, E_tp_cases, E_llm_testplan}

\* C7 (amended): an invocation that returns an error has left the output
\* directory as it found it unless it had reached its file write: validation
\* and unavailable-handle errors, and every error of the Webpage Analyzer,
\* change nothing; an error after the write step changes at most the
\* invocation's own file.
C7_Amended ==
    \A t \in Tasks :
        (pc[t] = "done" /\ IsError(result[t])) =>
            /\ "write" \notin Events(trace[t]) => fs = fsBefore[t]
            /\ result[t].error \in ValidationAndHandleErrors => fs = fsBefore[t]
            /\ handler[t] = Analyzer => fs = fsBefore[t]
            /\ \A f \in DOMAIN fs :
                  f # locals[t].file_path => f \in DOMAIN fsBefore[t] /\ fs[f] = fsBefore[t][f]
            /\ DOMAIN fsBefore[t] \subseteq DOMAIN fs

\* C7 witness: the runner could not be started; the error is returned and
\* the generated file stays behind
C7_Witness ==
    \E t \in Tasks :
        /\ pc[t] = "done"
        /\ IsError(result[t])
        /\ trace[t] = << "lookup", "llm", "write", "run" >>
        /\ fs # fsBefore[t]
        /\ fs[locals[t].file_path].text = locals[t].code

C9_Claimed ==
    stage = "twice" => stem2 = stem /\ Len(stem) <= StemLimit

\* C9 (amended): the stem has at most 40 characters; the stem of the stem is
\* the stem, except when the cut at 40 characters leaves an underscore at
\* the end, and then it is the stem without that underscore; slugify without
\* the cut is idempotent.
C9_Amended ==
    stage = "twice" =>
        /\ Len(stem) <= StemLimit
        /\ slugify(slugify(text)) = slugify(text)
        /\ IF stem # << >> /\ stem[Len(stem)] = "_"
           THEN /\ Len(slugify(text)) > StemLimit
                /\ Len(stem) = StemLimit
                /\ stem2 = SubSeq(stem, 1, Len(stem) - 1)
           ELSE stem2 = stem

\* C9 witness: a title whose stem was cut right after an underscore
C9_Witness ==
    /\ stage = "twice"
    /\ Len(stem) = StemLimit
    /\ stem[Len(stem)] = "_"
    /\ stem2 # stem

\* C10: with both invocations on one event loop, the file an invocation is
\* about to run, has run or is repairing is the one it wrote itself, and the
\* runner executed exactly the code that invocation wrote.
C10_RunsOwnCode ==
    \A t \in Tasks :
        /\ (handler[t] = CodeGen /\ pc[t] \in {"run", "invoke2", "write2"}) =>
              fs[locals[t].file_path] = [text |-> locals[t].written, by |-> t]
        /\ locals[t].executed # Absent =>
              locals[t].executed = [text |-> locals[t].written, by |-> t]

\* C10 witness: one invocation stands between its write and its run while
\* the other, for the same file, is suspended in its await
C10_Witness ==
    \E t, u \in Tasks :
        /\ t # u
        /\ pc[t] = "run"
        /\ pc[u] = "get_llm"
        /\ given[u] = given[t]
====
